---------------------------- MODULE Spec2Model ----------------------------
(***************************************************************************)
(* Model of the parallel scrape orchestration of b-work:                   *)
(*   Driver.scrape_range_prompt, Driver.add_item_range_parallel,           *)
(*   Driver.add_item_range_parallel_helper (src/Driver.py) and             *)
(*   Scraper.__init__, Scraper.initialize_driver, Scraper.login_calnet,    *)
(*   Scraper.scrape_request / scrape_order (src/Scraper.py).               *)
(* MaintenanceDatabase and WebAutomation.select_item are called by these   *)
(* files but defined in none of them; their steps are modelled from the    *)
(* specification and marked so where they are defined.                     *)
(***************************************************************************)
EXTENDS Integers, Sequences, FiniteSets, TLC

\* ------------------------------------------------------------------ bounds
\* Largest parallel process count the operator may configure.
MaxProcs == 2
\* The start id is read from -MaxNeg .. MaxStart.
MaxNeg == 1
MaxStart == 1
\* The stop id is read from start-1 .. start+MaxLen.
MaxLen == 2

MinStart == 0 - MaxNeg
\* The start ids offered at the prompt; also the starts of the documented
\* example runs: 5 for orders (ORDER 5..7 on 2 processes) and 100 for
\* requests (REQUEST 100..103 on 1 process).
StartIds(type) ==
    (MinStart..MaxStart) \cup (IF type = "order" THEN {5} ELSE {100})
\* The stop ids offered for start id s: from one below s (asked again) to
\* MaxLen above it; for the example start 100 its stop, 103.
StopIds(s) == IF s = 100 THEN {103} ELSE (s - 1)..(s + MaxLen)
Instances == 0..MaxProcs        \* profile instances p0, p1, ...
Tasks == 0..MaxProcs            \* 0: the primary (driver) database; 1..: pool tasks
ItemTypes == {"request", "order"}
order_prefix == "WO"            \* Program-Variables / s_work_order_prefix

\* ---------------------------------------------------------- pure functions
Max(a, b) == IF a >= b THEN a ELSE b

Digit(d) ==
    CASE d = 0 -> "0" [] d = 1 -> "1" [] d = 2 -> "2" [] d = 3 -> "3"
      [] d = 4 -> "4" [] d = 5 -> "5" [] d = 6 -> "6" [] d = 7 -> "7"
      [] d = 8 -> "8" [] d = 9 -> "9"

RECURSIVE NatStr(_)
NatStr(n) == IF n < 10 THEN Digit(n) ELSE NatStr(n \div 10) \o Digit(n % 10)

\* Python's str(int): decimal digits, a leading "-" for a negative number.
Str(n) == IF n < 0 THEN "-" \o NatStr(0 - n) ELSE NatStr(n)

\* An order id handed on without its prefix.
ItemOfNoPrefix(type, pfx, item_id) ==
    IF type = "request" THEN item_id ELSE Str(item_id)

\* Driver.py 174-177: what is appended to the process's list for item_id.
ItemOf(type, pfx, item_id) ==
    IF type = "request" THEN item_id ELSE pfx \o Str(item_id)

\* A partitioner that is off by one id.
ProcessNumShifted(item_id, n) == (item_id + 1) % n

\* A bucket index taken from the quotient: runs of n ids share a bucket.
ProcessNumBlocks(item_id, n) == (item_id \div n) % n

\* Driver.py 173: process_num = item_id % num_processes.
ProcessNum(item_id, n) == item_id % n

\* A loop that puts each id in front of its list.
RECURSIVE IdDictFromPrepend(_, _, _, _, _, _)
IdDictFromPrepend(type, pfx, item_id, hi, n, d) ==
    IF item_id >= hi THEN d
    ELSE LET process_num == ProcessNum(item_id, n)
         IN  IdDictFromPrepend(type, pfx, item_id + 1, hi, n,
                 [d EXCEPT ![process_num] =
                     <<ItemOf(type, pfx, item_id)>> \o d[process_num]])

\* Driver.py 171-177: the loop over range(start, stop), from item_id on, on a
\* defaultdict(list) d (a missing key reads as the empty list).
RECURSIVE IdDictFrom(_, _, _, _, _, _)
IdDictFrom(type, pfx, item_id, hi, n, d) ==
    IF item_id >= hi THEN d
    ELSE LET process_num == ProcessNum(item_id, n)
         IN  IdDictFrom(type, pfx, item_id + 1, hi, n,
                 [d EXCEPT ![process_num] =
                     Append(d[process_num], ItemOf(type, pfx, item_id))])

IdDict(type, pfx, lo, hi, n) ==
    IdDictFrom(type, pfx, lo, hi, n, [p \in 0..(n - 1) |-> << >>])

\* One process id for every worker.
ArgProcessIdShared(process_id) == 1

\* Process ids that start at 0, the id of the primary database.
ArgProcessIdZeroBased(process_id) == process_id

\* Driver.py 185: the process id passed for the list of process_id.
\* Process 0 is reserved for the primary (driver) database.
ArgProcessId(process_id) == process_id + 1

\* Driver.py 181-185: one argument tuple per process_id of range(num_processes).
Args(type, pfx, lo, hi, n) ==
    LET id_dict == IdDict(type, pfx, lo, hi, n)
    IN  [i \in 1..n |-> [process_id |-> ArgProcessId(i - 1),
                         item_ids   |-> id_dict[i - 1]]]

\* A request range that is not floored.
FloorStartNone(type, lo) == lo

\* Driver.py 91-92: the flooring of a request range.
FloorStart(type, lo) == IF type = "request" THEN Max(1, lo) ELSE lo
FloorStop(type, lo, hi) == IF type = "request" THEN Max(lo, hi) ELSE hi

\* The ids of range(lo, hi), ascending (MaintenanceDatabase.add_*_range).
RECURSIVE RangeItems(_, _, _, _)
RangeItems(type, pfx, lo, hi) ==
    IF lo >= hi THEN << >>
    ELSE <<ItemOf(type, pfx, lo)>> \o RangeItems(type, pfx, lo + 1, hi)

SeqToSet(s) == {s[i] : i \in 1..Len(s)}

\* ------------------------------------------------------------------- state
VARIABLES
    dpc,            \* position of the driver (the calling process)
    item_type,      \* scrape_range_prompt's item_type
    in_start,       \* the start id as entered at the prompt
    in_stop,        \* the stop id as entered at the prompt
    start,          \* scrape_range_prompt's start
    stop,           \* scrape_range_prompt's stop
    num_processes,  \* scrape_range_prompt's num_processes
    cfg_processes,  \* config Scraper / i_parallel_process_count
    args,           \* add_item_range_parallel's args
    profiles,       \* Profiles/<hash>/p<i> on disk, per instance i
    tpc,            \* position of each task (0: the primary database)
    session,        \* each task's webdriver: none, live, closed
    conn,           \* each task's database connection: none, open, closed
    pos,            \* index of the item each task works on
    cur,            \* <<record>> scraped for that item, before it is written
    produced,       \* the records each task wrote in this run, in order
    credential_ok,  \* whether the portal accepts the user's credential
    category,       \* the category selected in each task's scrape call
    menu,           \* Menu.menu_prompt: its arguments, locals and result
    platform,       \* SetupUtils.get_platform: what it detects, reads, returns
    download,       \* SetupUtils.download_browser_items: locals and effects
    extraction      \* WebAutomation.scrape_*: the page and the record built

vars == <<dpc, item_type, in_start, in_stop, start, stop, num_processes,
          cfg_processes, args, profiles, tpc, session, conn,
          pos, cur, produced, credential_ok, category,
          menu, platform, download, extraction>>

range_vars == <<item_type, in_start, in_stop, start, stop>>
task_vars == <<tpc, session, conn, pos, cur, produced>>
driver_vars == <<dpc, range_vars, num_processes, cfg_processes, args,
                 credential_ok>>

\* The routines of Menu.py, SetupUtils.py and WebAutomation.scrape_* are
\* modelled on their own (MenuSpec, PlatformSpec, DownloadSpec, ExtractSpec);
\* elsewhere their variables rest.
util_vars == <<menu, platform, download, extraction>>
Resting == [pc |-> "rest"]
UtilsRest ==
    /\ menu = Resting /\ platform = Resting
    /\ download = Resting /\ extraction = Resting

\* The process state of a program that has just been started.
FreshTasks ==
    /\ category = [t \in Tasks |-> ""]
    /\ tpc = [t \in Tasks |-> "idle"]
    /\ session = [t \in Tasks |-> "none"]
    /\ conn = [t \in Tasks |-> "none"]
    /\ pos = [t \in Tasks |-> 1]
    /\ cur = [t \in Tasks |-> << >>]
    /\ produced = [t \in Tasks |-> << >>]

Init ==
    /\ dpc = "init"
    /\ item_type = "request"
    /\ in_start = 0 /\ in_stop = 0
    /\ start = 0 /\ stop = 0
    /\ num_processes = 0
    /\ cfg_processes \in 0..MaxProcs
    /\ args = << >>
    /\ profiles = [i \in Instances |-> "absent"]
    /\ FreshTasks
    /\ credential_ok \in BOOLEAN
    /\ UtilsRest

\* --------------------------------------------------------- session set-up
\* Scraper.__init__ runs initialize_driver and then login_calnet; the same
\* code constructs the primary scraper (process_id 0) and every parallel one.

Prefix == IF item_type = "order" THEN order_prefix ELSE ""

\* The process id a task's scraper is constructed with; its webdriver is
\* bound to the profile instance of that id (Scraper.py 56, 63).
ProcessIdOf(t) == IF t = 0 THEN 0 ELSE args[t].process_id

Exists(i) == profiles[i] # "absent"

\* An initialize_driver that copies the base profile on every start.
ResolveOpAlwaysCopy(process_id, exists) ==
    IF process_id = 0 THEN (IF exists THEN "reuse" ELSE "makedirs")
    ELSE "copytree"

\* An initialize_driver that never creates the instance directory.
ResolveOpNever(process_id, exists) == "reuse"

\* Scraper.py 57-62: what initialize_driver does for the instance directory
\* of process_id, given whether os.path.exists finds it.
ResolveOp(process_id, exists) ==
    IF exists THEN "reuse"
    ELSE IF process_id = 0 THEN "makedirs" ELSE "copytree"

\* Scraper.py 33-69. makedirs creates an empty base profile. shutil.copytree
\* lists the base directory (raising when there is none), creates the target
\* and then copies into it: until it returns the target is incomplete.
\* Without a copy the webdriver is started on the directory at once.
InitializeDriver(t) ==
    /\ tpc[t] = "resolve"
    /\ LET process_id == ProcessIdOf(t)
           op == ResolveOp(process_id, Exists(process_id))
           copies == op = "copytree" /\ Exists(0)
           raises == op = "copytree" /\ ~Exists(0)
       IN  /\ profiles' =
                 CASE op = "makedirs" ->
                        [profiles EXCEPT ![process_id] = "plain"]
                   [] copies -> [profiles EXCEPT ![process_id] = "partial"]
                   [] OTHER -> profiles
           /\ tpc' = [tpc EXCEPT ![t] =
                 CASE copies -> "copying" [] raises -> "failed"
                   [] OTHER -> "login"]
           /\ session' = IF copies \/ raises THEN session
                         ELSE [session EXCEPT ![t] = "live"]
    /\ UNCHANGED <<driver_vars, conn, pos, cur, produced>>
    /\ UNCHANGED <<category, util_vars>>

\* Scraper.py 62-69: shutil.copytree returns, the target holds what the base
\* holds, and the webdriver is started on it.
EndCopyProfile(t) ==
    /\ tpc[t] = "copying"
    /\ profiles' = [profiles EXCEPT ![ProcessIdOf(t)] = profiles[0]]
    /\ session' = [session EXCEPT ![t] = "live"]
    /\ tpc' = [tpc EXCEPT ![t] = "login"]
    /\ UNCHANGED <<driver_vars, conn, pos, cur, produced>>
    /\ UNCHANGED <<category, util_vars>>

\* Scraper.py 62: shutil.copytree raises part-way (an I/O error on some file);
\* what was copied so far stays on disk, the exception leaves Scraper.__init__.
FailCopyProfile(t) ==
    /\ tpc[t] = "copying"
    /\ tpc' = [tpc EXCEPT ![t] = "failed"]
    /\ UNCHANGED <<driver_vars, profiles, session, conn, pos, cur, produced>>
    /\ UNCHANGED <<category, util_vars>>

\* How WebAutomation.login_calnet can end on a profile in state p:
\*   landing   the title wait of lines 36-38 succeeds (trust already stored)
\*   confirmed Duo is confirmed within 60 s, trust-browser-button is clicked
\*   timeout   the wait of line 42 times out: TimeoutException is raised
\*   rejected  the credential is refused, neither page shows up: the title
\*             wait fails, the title is not Duo's, the function returns
LoginOutcomes(p, accepted) ==
    IF ~accepted THEN {"rejected"}
    ELSE CASE p = "trusted" -> {"landing"}
           [] p = "partial" -> {"landing", "confirmed", "timeout"}
           [] OTHER -> {"confirmed", "timeout"}

\* Scraper.py 71-80 and WebAutomation.py 16-43. When login_calnet returns,
\* Scraper.__init__ returns and MaintenanceDatabase.__init__ (not in src/)
\* has its scraper and its own database connection.
LoginCalnet(t) ==
    /\ tpc[t] = "login"
    /\ \E o \in LoginOutcomes(profiles[ProcessIdOf(t)], credential_ok) :
         /\ tpc' = [tpc EXCEPT ![t] = IF o = "timeout" THEN "failed"
                                                       ELSE "ready"]
         /\ conn' = IF o = "timeout" THEN conn
                    ELSE [conn EXCEPT ![t] = "open"]
         /\ profiles' =
               IF o = "confirmed" /\ profiles[ProcessIdOf(t)] = "plain"
               THEN [profiles EXCEPT ![ProcessIdOf(t)] = "trusted"]
               ELSE profiles
    /\ UNCHANGED <<driver_vars, session, pos, cur, produced>>
    /\ UNCHANGED <<category, util_vars>>

\* ------------------------------------------------------------ the item loop
\* The items a task works through: a pool task its item_ids, the primary
\* database the whole range (MaintenanceDatabase.add_request_range and
\* add_order_range, not in src/: range(start, stop) in ascending order).
Items(t) ==
    IF t = 0
    THEN IF dpc = "sequential"
         THEN RangeItems(item_type, Prefix, start, stop) ELSE << >>
    ELSE IF t <= Len(args) THEN args[t].item_ids ELSE << >>

Working(t) == IF t = 0 THEN dpc = "sequential" ELSE dpc = "pool"

\* Scraper.py 91 / 106: scrape_request selects 'WR', scrape_order 'WO'; the
\* helper calls the one or the other by item_type (Driver.py 143-146).
Category(type) == IF type = "request" THEN "WR" ELSE "WO"

\* Scraper.py 91 / 106: WebAutomation.select_item(driver, 'WR' | 'WO'), called
\* outside the try. select_item is not in src/; like select_request_button
\* (WebAutomation.py 46-60) it either selects the category or raises.
SelectItem(t) ==
    /\ tpc[t] = "ready" /\ Working(t)
    /\ pos[t] <= Len(Items(t))
    /\ \E selected \in BOOLEAN :
         /\ tpc' = [tpc EXCEPT ![t] = IF selected THEN "search" ELSE "failed"]
         /\ category' = IF selected
                        THEN [category EXCEPT ![t] = Category(item_type)]
                        ELSE category
    /\ UNCHANGED <<driver_vars, profiles, session, conn, pos, cur, produced>>
    /\ UNCHANGED util_vars

\* Scraper.py 92-95 / 107-110: the record WebAutomation.scrape_* returns or,
\* on any exception, the empty record of the same id.
ScrapeResult(item, found) == [id |-> item, found |-> found]

\* A scrape_* without the except clause: a failed search leaves the method.
ScrapeItemRaises(t) ==
    /\ tpc[t] = "search" /\ Working(t)
    /\ \E found \in (IF credential_ok THEN BOOLEAN ELSE {FALSE}) :
         /\ cur' = IF found
                   THEN [cur EXCEPT ![t] = <<ScrapeResult(Items(t)[pos[t]], TRUE)>>]
                   ELSE cur
         /\ tpc' = [tpc EXCEPT ![t] = IF found THEN "write" ELSE "failed"]
    /\ UNCHANGED <<driver_vars, profiles, session, conn, pos, produced>>
    /\ UNCHANGED <<category, util_vars>>

\* A scrape_* that returns nothing for an item it cannot find.
ScrapeItemDropsNotFound(t) ==
    /\ tpc[t] = "search" /\ Working(t)
    /\ \E found \in (IF credential_ok THEN BOOLEAN ELSE {FALSE}) :
         cur' = [cur EXCEPT ![t] =
                    IF found THEN <<ScrapeResult(Items(t)[pos[t]], TRUE)>>
                    ELSE << >>]
    /\ tpc' = [tpc EXCEPT ![t] = "write"]
    /\ UNCHANGED <<driver_vars, profiles, session, conn, pos, produced>>
    /\ UNCHANGED <<category, util_vars>>

\* A session that is not logged in finds no record.
ScrapeItem(t) ==
    /\ tpc[t] = "search" /\ Working(t)
    /\ \E found \in (IF credential_ok THEN BOOLEAN ELSE {FALSE}) :
         cur' = [cur EXCEPT ![t] = <<ScrapeResult(Items(t)[pos[t]], found)>>]
    /\ tpc' = [tpc EXCEPT ![t] = "write"]
    /\ UNCHANGED <<driver_vars, profiles, session, conn, pos, produced>>
    /\ UNCHANGED <<category, util_vars>>

\* MaintenanceDatabase.add_requests / add_orders (not in src/): the record is
\* written through the task's own connection, then the next id is taken.
WriteItem(t) ==
    /\ tpc[t] = "write" /\ Working(t)
    /\ produced' = [produced EXCEPT ![t] = produced[t] \o cur[t]]
    /\ cur' = [cur EXCEPT ![t] = << >>]
    /\ pos' = [pos EXCEPT ![t] = pos[t] + 1]
    /\ tpc' = [tpc EXCEPT ![t] = "ready"]
    /\ category' = [category EXCEPT ![t] = ""]
    /\ UNCHANGED <<driver_vars, profiles, session, conn>>
    /\ UNCHANGED util_vars

\* MaintenanceDatabase.close (not in src/): closes the scraper (Scraper.py
\* 133-135) and the connection.
Closed(f, t) == [f EXCEPT ![t] = "closed"]

\* A helper that closes its database whether or not the list is exhausted.
CloseTaskEarly(t) ==
    /\ t # 0 /\ tpc[t] = "ready" /\ Working(t)
    /\ session' = Closed(session, t)
    /\ conn' = Closed(conn, t)
    /\ tpc' = [tpc EXCEPT ![t] = "done"]
    /\ UNCHANGED <<driver_vars, profiles, pos, cur, produced>>
    /\ UNCHANGED <<category, util_vars>>

\* Driver.py 147: the list is exhausted, database.close().
CloseTask(t) ==
    /\ t # 0 /\ tpc[t] = "ready" /\ Working(t)
    /\ pos[t] > Len(Items(t))
    /\ session' = Closed(session, t)
    /\ conn' = Closed(conn, t)
    /\ tpc' = [tpc EXCEPT ![t] = "done"]
    /\ UNCHANGED <<driver_vars, profiles, pos, cur, produced>>
    /\ UNCHANGED <<category, util_vars>>

\* Driver.py 147-148: KeyboardInterrupt while the database.close() that ends
\* the try block is running: the close is abandoned where it stands, with
\* the scraper, the connection, both or neither closed so far, and control
\* passes to the except branch, which calls database.close() again.
CloseTaskInterrupted(t) ==
    /\ t # 0 /\ tpc[t] = "ready" /\ Working(t)
    /\ pos[t] > Len(Items(t))
    /\ \E scraper_closed, connection_closed \in BOOLEAN :
          /\ session' = IF scraper_closed THEN Closed(session, t) ELSE session
          /\ conn' = IF connection_closed THEN Closed(conn, t) ELSE conn
    /\ tpc' = [tpc EXCEPT ![t] = "closing"]
    /\ UNCHANGED <<driver_vars, profiles, pos, cur, produced>>
    /\ UNCHANGED <<category, util_vars>>

\* A helper whose except branch ends every task of the pool.
InterruptAllWorkers(t) ==
    /\ t # 0 /\ tpc[t] \in {"ready", "write"} /\ Working(t)
    /\ cur' = [u \in Tasks |-> IF u # 0 THEN << >> ELSE cur[u]]
    /\ category' = [u \in Tasks |-> IF u # 0 THEN "" ELSE category[u]]
    /\ tpc' = [u \in Tasks |->
                 IF u # 0 /\ tpc[u] \in {"ready", "search", "write"}
                 THEN "closing" ELSE tpc[u]]
    /\ UNCHANGED <<driver_vars, profiles, session, conn, pos, produced>>
    /\ UNCHANGED util_vars

\* Driver.py 142-148: KeyboardInterrupt inside the try block but outside the
\* try of Scraper.scrape_*: in select_item or in the database's own code.
Interrupt(t) ==
    /\ t # 0 /\ tpc[t] \in {"ready", "write"} /\ Working(t)
    /\ cur' = [cur EXCEPT ![t] = << >>]
    /\ category' = [category EXCEPT ![t] = ""]
    /\ tpc' = [tpc EXCEPT ![t] = "closing"]
    /\ UNCHANGED <<driver_vars, profiles, session, conn, pos, produced>>
    /\ UNCHANGED util_vars

\* Driver.py 149: database.close() in the except branch.
CloseInterrupted(t) ==
    /\ tpc[t] = "closing"
    /\ session' = Closed(session, t)
    /\ conn' = Closed(conn, t)
    /\ tpc' = [tpc EXCEPT ![t] = "stopped"]
    /\ UNCHANGED <<driver_vars, profiles, pos, cur, produced>>
    /\ UNCHANGED <<category, util_vars>>

\* Scraper.py 92-95 / 107-110: the except clause names no exception class, so
\* a KeyboardInterrupt raised inside WebAutomation.scrape_* is caught there
\* as well: the empty record is returned and the task goes on.
InterruptScrape(t) ==
    /\ tpc[t] = "search" /\ Working(t)
    /\ cur' = [cur EXCEPT ![t] = <<ScrapeResult(Items(t)[pos[t]], FALSE)>>]
    /\ tpc' = [tpc EXCEPT ![t] = "write"]
    /\ UNCHANGED <<driver_vars, profiles, session, conn, pos, produced>>
    /\ UNCHANGED <<category, util_vars>>

\* Driver.py 137-140: KeyboardInterrupt while the helper constructs its
\* MaintenanceDatabase, before the try block. Nothing catches it (the pool's
\* worker loop catches Exception only): the worker process ends, what the
\* constructor had opened is not closed and the task never reports back.
InterruptSetup(t) ==
    /\ t # 0 /\ tpc[t] \in {"resolve", "copying", "login"}
    /\ tpc' = [tpc EXCEPT ![t] = "killed"]
    /\ UNCHANGED <<driver_vars, profiles, session, conn, pos, cur, produced>>
    /\ UNCHANGED <<category, util_vars>>

\* Driver.py 149: KeyboardInterrupt during the close of the except branch,
\* before it has closed anything; the worker process ends as above.
InterruptClose(t) ==
    /\ t # 0 /\ tpc[t] = "closing"
    /\ tpc' = [tpc EXCEPT ![t] = "killed"]
    /\ UNCHANGED <<driver_vars, profiles, session, conn, pos, cur, produced>>
    /\ UNCHANGED <<category, util_vars>>

\* --------------------------------------------------------------- the driver
\* Driver.py 33 and 192: connect_primary_database constructs the primary
\* MaintenanceDatabase, whose scraper has process id 0.
ConnectPrimaryDatabase ==
    /\ dpc \in {"init", "reopen"}
    /\ dpc' = IF dpc = "init" THEN "connect_init" ELSE "connect_reopen"
    /\ tpc' = [tpc EXCEPT ![0] = "resolve"]
    /\ UNCHANGED <<range_vars, num_processes, cfg_processes, args,
                   credential_ok, profiles, session, conn, pos, cur, produced>>
    /\ UNCHANGED <<category, util_vars>>

\* The constructor returned: Driver.__init__ goes on to the main menu,
\* add_item_range_parallel returns to scrape_range_prompt.
PrimaryConnected ==
    /\ dpc \in {"connect_init", "connect_reopen"}
    /\ tpc[0] = "ready"
    /\ dpc' = IF dpc = "connect_init" THEN "menu" ELSE "finish"
    /\ UNCHANGED <<range_vars, num_processes, cfg_processes, args,
                   credential_ok, profiles, task_vars>>
    /\ UNCHANGED <<category, util_vars>>

\* An exception of the primary scraper is caught nowhere: the program ends.
PrimaryFailed ==
    /\ dpc \in {"connect_init", "connect_reopen", "sequential"}
    /\ tpc[0] = "failed"
    /\ dpc' = "crashed"
    /\ UNCHANGED <<range_vars, num_processes, cfg_processes, args,
                   credential_ok, profiles, task_vars>>
    /\ UNCHANGED <<category, util_vars>>

\* Driver.py 63-70: options 0 and 1 of the main menu start a scrape run.
MainMenuScrape ==
    /\ dpc = "menu"
    /\ \E type \in ItemTypes : item_type' = type
    /\ dpc' = "read_range"
    /\ UNCHANGED <<in_start, in_stop, start, stop, num_processes,
                   cfg_processes, args, credential_ok, profiles, task_vars>>
    /\ UNCHANGED <<category, util_vars>>

\* Driver.py 71-72: the settings menu (Config, not in src/) may change the
\* configured process count.
MainMenuSettings ==
    /\ dpc = "menu"
    /\ \E n \in 0..MaxProcs : cfg_processes' = n
    /\ UNCHANGED <<dpc, range_vars, num_processes, args, credential_ok,
                   profiles, task_vars>>
    /\ UNCHANGED <<category, util_vars>>

\* Driver.py 73-74: [EXIT].
MainMenuExit ==
    /\ dpc = "menu"
    /\ dpc' = "exited"
    /\ UNCHANGED <<range_vars, num_processes, cfg_processes, args,
                   credential_ok, profiles, task_vars>>
    /\ UNCHANGED <<category, util_vars>>

\* Driver.py 83-88: both ids are read until start <= stop.
ReadRange ==
    /\ dpc = "read_range"
    /\ \E s \in StartIds(item_type) : \E e \in StopIds(s) :
         /\ in_start' = s /\ in_stop' = e
         /\ start' = s /\ stop' = e
         /\ dpc' = IF s > e THEN "read_range" ELSE "floor"
    /\ UNCHANGED <<item_type, num_processes, cfg_processes, args,
                   credential_ok, profiles, task_vars>>
    /\ UNCHANGED <<category, util_vars>>

\* Driver.py 90-92.
FloorRange ==
    /\ dpc = "floor"
    /\ start' = FloorStart(item_type, start)
    /\ stop' = FloorStop(item_type, start', stop)
    /\ dpc' = "get_count"
    /\ UNCHANGED <<item_type, in_start, in_stop, num_processes, cfg_processes,
                   args, credential_ok, profiles, task_vars>>
    /\ UNCHANGED <<category, util_vars>>

\* Driver.py 94.
GetProcessCount ==
    /\ dpc = "get_count"
    /\ num_processes' = cfg_processes
    /\ dpc' = "check_count"
    /\ UNCHANGED <<range_vars, cfg_processes, args, credential_ok, profiles,
                   task_vars>>
    /\ UNCHANGED <<category, util_vars>>

\* Driver.py 95-99: while the count is below 1 another one is asked for.
PromptProcessCount ==
    /\ dpc = "check_count" /\ num_processes < 1
    /\ \E n \in 0..MaxProcs : num_processes' = n
    /\ UNCHANGED <<dpc, range_vars, cfg_processes, args, credential_ok,
                   profiles, task_vars>>
    /\ UNCHANGED <<category, util_vars>>

\* A prompt that takes the configured count as it is.
SaveProcessCountUnchecked ==
    /\ dpc = "check_count"
    /\ cfg_processes' = num_processes
    /\ dpc' = IF num_processes > 1 THEN "partition" ELSE "sequential"
    /\ UNCHANGED <<range_vars, num_processes, args, credential_ok, profiles,
                   task_vars>>
    /\ UNCHANGED <<category, util_vars>>

\* A prompt that hands every run to the pool.
SaveProcessCountAlwaysParallel ==
    /\ dpc = "check_count" /\ num_processes >= 1
    /\ cfg_processes' = num_processes
    /\ dpc' = "partition"
    /\ UNCHANGED <<range_vars, num_processes, args, credential_ok, profiles,
                   task_vars>>
    /\ UNCHANGED <<category, util_vars>>

\* Driver.py 100-112: the count is saved; more than one process scrapes in
\* parallel, one process scrapes on the primary database.
SaveProcessCount ==
    /\ dpc = "check_count" /\ num_processes >= 1
    /\ cfg_processes' = num_processes
    /\ dpc' = IF num_processes > 1 THEN "partition" ELSE "sequential"
    /\ UNCHANGED <<range_vars, num_processes, args, credential_ok, profiles,
                   task_vars>>
    /\ UNCHANGED <<category, util_vars>>

\* Driver.py 169-185.
Partition ==
    /\ dpc = "partition"
    /\ args' = Args(item_type, Prefix, start, stop, num_processes)
    /\ dpc' = "close_primary"
    /\ UNCHANGED <<range_vars, num_processes, cfg_processes, credential_ok,
                   profiles, task_vars>>
    /\ UNCHANGED <<category, util_vars>>

\* A driver that goes on to the pool with its primary database still open.
ClosePrimarySkipped ==
    /\ dpc = "close_primary"
    /\ dpc' = "spawn"
    /\ UNCHANGED <<range_vars, num_processes, cfg_processes, args,
                   credential_ok, profiles, task_vars>>
    /\ UNCHANGED <<category, util_vars>>

\* Driver.py 188-189: self.database.close(); del self.database.
ClosePrimary ==
    /\ dpc = "close_primary"
    /\ session' = Closed(session, 0)
    /\ conn' = Closed(conn, 0)
    /\ tpc' = [tpc EXCEPT ![0] = "idle"]
    /\ dpc' = "spawn"
    /\ UNCHANGED <<range_vars, num_processes, cfg_processes, args,
                   credential_ok, profiles, pos, cur, produced>>
    /\ UNCHANGED <<category, util_vars>>

\* Scraper.py 61-62 reads Profiles/<hash>/p0 from disk when a worker needs a
\* clone. The directory is the user's: it can be gone by then (removed while
\* the primary scraper is closed), which is the case copytree raises in.
RemoveBaseProfile ==
    /\ dpc = "spawn" /\ Exists(0)
    /\ profiles' = [profiles EXCEPT ![0] = "absent"]
    /\ UNCHANGED <<driver_vars, task_vars>>
    /\ UNCHANGED <<category, util_vars>>

\* Driver.py 190-191 and 137-140: a pool of num_processes processes, one
\* task per tuple; in each the helper begins to construct its own
\* MaintenanceDatabase.
StartPool ==
    /\ dpc = "spawn"
    /\ tpc' = [t \in Tasks |-> IF t \in 1..Len(args) THEN "resolve" ELSE tpc[t]]
    /\ dpc' = "pool"
    /\ UNCHANGED <<range_vars, num_processes, cfg_processes, args,
                   credential_ok, profiles, session, conn, pos, cur, produced>>
    /\ UNCHANGED <<category, util_vars>>

Terminated(t) == tpc[t] \in {"done", "stopped", "failed"}

\* Driver.py 190-192: starmap returns once every task has reported back (a
\* task whose worker process was ended never does). It re-raises the
\* exception of a task that raised one; the exception is caught nowhere, so
\* line 192 is not reached and the program ends.
JoinPool ==
    /\ dpc = "pool"
    /\ \A t \in 1..Len(args) : Terminated(t)
    /\ dpc' = IF \E t \in 1..Len(args) : tpc[t] = "failed"
              THEN "crashed" ELSE "reopen"
    /\ UNCHANGED <<range_vars, num_processes, cfg_processes, args,
                   credential_ok, profiles, task_vars>>
    /\ UNCHANGED <<category, util_vars>>

\* MaintenanceDatabase.add_request_range / add_order_range (not in src/)
\* returns when the range is exhausted.
SequentialDone ==
    /\ dpc = "sequential" /\ tpc[0] = "ready"
    /\ pos[0] > Len(Items(0))
    /\ dpc' = "finish"
    /\ UNCHANGED <<range_vars, num_processes, cfg_processes, args,
                   credential_ok, profiles, task_vars>>
    /\ UNCHANGED <<category, util_vars>>

\* Driver.py 114-115: scrape_range_prompt returns to the main menu; its
\* locals and what the run left in the pool's processes are gone.
Finish ==
    /\ dpc = "finish"
    /\ dpc' = "menu"
    /\ item_type' = "request"
    /\ in_start' = 0 /\ in_stop' = 0 /\ start' = 0 /\ stop' = 0
    /\ num_processes' = 0
    /\ args' = << >>
    /\ tpc' = [t \in Tasks |-> IF t = 0 THEN tpc[0] ELSE "idle"]
    /\ session' = [t \in Tasks |-> IF t = 0 THEN session[0] ELSE "none"]
    /\ conn' = [t \in Tasks |-> IF t = 0 THEN conn[0] ELSE "none"]
    /\ pos' = [t \in Tasks |-> 1]
    /\ cur' = [t \in Tasks |-> << >>]
    /\ produced' = [t \in Tasks |-> << >>]
    /\ category' = [t \in Tasks |-> ""]
    /\ UNCHANGED <<cfg_processes, credential_ok, profiles>>
    /\ UNCHANGED util_vars

\* Driver.py 217-220 and 29-30: the program is started again and the user
\* logs in; the profile directories and the saved configuration are what the
\* last execution left on disk.
Restart ==
    /\ dpc \in {"crashed", "exited"}
    /\ dpc' = "init"
    /\ credential_ok' \in BOOLEAN
    /\ item_type' = "request"
    /\ in_start' = 0 /\ in_stop' = 0 /\ start' = 0 /\ stop' = 0
    /\ num_processes' = 0
    /\ args' = << >>
    /\ tpc' = [t \in Tasks |-> "idle"]
    /\ session' = [t \in Tasks |-> "none"]
    /\ conn' = [t \in Tasks |-> "none"]
    /\ pos' = [t \in Tasks |-> 1]
    /\ cur' = [t \in Tasks |-> << >>]
    /\ produced' = [t \in Tasks |-> << >>]
    /\ category' = [t \in Tasks |-> ""]
    /\ UNCHANGED <<cfg_processes, profiles>>
    /\ UNCHANGED util_vars

Next ==
    \/ ConnectPrimaryDatabase
    \/ PrimaryConnected
    \/ PrimaryFailed
    \/ MainMenuScrape
    \/ MainMenuSettings
    \/ MainMenuExit
    \/ ReadRange
    \/ FloorRange
    \/ GetProcessCount
    \/ PromptProcessCount
    \/ SaveProcessCount
    \/ Partition
    \/ ClosePrimary
    \/ StartPool
    \/ JoinPool
    \/ SequentialDone
    \/ Finish
    \/ Restart
    \/ \E t \in Tasks : InitializeDriver(t)
    \/ \E t \in Tasks : EndCopyProfile(t)
    \/ \E t \in Tasks : FailCopyProfile(t)
    \/ \E t \in Tasks : LoginCalnet(t)
    \/ \E t \in Tasks : SelectItem(t)
    \/ \E t \in Tasks : ScrapeItem(t)
    \/ \E t \in Tasks : WriteItem(t)
    \/ \E t \in Tasks : CloseTask(t)
    \/ \E t \in Tasks : Interrupt(t)
    \/ \E t \in Tasks : CloseInterrupted(t)
    \/ \E t \in Tasks : InterruptScrape(t)

Spec == Init /\ [][Next]_vars

\* ------------------------------------ the program in a hostile environment
\* Spec delivers a KeyboardInterrupt where the code expects one, inside the
\* helper's try block while an item is worked on. EnvSpec adds what the
\* environment can do besides: an interrupt outside the try block or during
\* the close that ends it, and the removal of the base profile.
EnvNext ==
    \/ Next
    \/ \E t \in Tasks : CloseTaskInterrupted(t)
    \/ RemoveBaseProfile
    \/ \E t \in Tasks : InterruptSetup(t)
    \/ \E t \in Tasks : InterruptClose(t)

EnvSpec == Init /\ [][EnvNext]_vars

\* ------------------------------------------------- the partitioner alone
\* add_item_range_parallel's bucket building (Driver.py 169-185) applied to
\* arguments drawn from bounded sets, num_processes = 1 included.
PartMaxId == 4
PartMaxLen == 5
PartMaxProcs == 4

PartInit ==
    /\ dpc = "partition"
    /\ item_type \in ItemTypes
    /\ start \in (0 - PartMaxId)..PartMaxId
    /\ stop \in start..(start + PartMaxLen)
    /\ in_start = start /\ in_stop = stop
    /\ num_processes \in 1..PartMaxProcs
    /\ cfg_processes = num_processes
    /\ args = << >>
    /\ profiles = [i \in Instances |-> IF i = 0 THEN "trusted" ELSE "absent"]
    /\ tpc = [t \in Tasks |-> IF t = 0 THEN "ready" ELSE "idle"]
    /\ session = [t \in Tasks |-> IF t = 0 THEN "live" ELSE "none"]
    /\ conn = [t \in Tasks |-> IF t = 0 THEN "open" ELSE "none"]
    /\ pos = [t \in Tasks |-> 1]
    /\ cur = [t \in Tasks |-> << >>]
    /\ produced = [t \in Tasks |-> << >>]
    /\ credential_ok = TRUE
    /\ category = [t \in Tasks |-> ""]
    /\ UtilsRest

PartNext == Partition

PartSpec == PartInit /\ [][PartNext]_vars

\* ------------------------------------------------ the routines on their own
\* The program's own variables while one routine is looked at by itself.
program_vars == <<driver_vars, profiles, task_vars, category>>
ProgramAtRest ==
    /\ dpc = "init"
    /\ item_type = "request"
    /\ in_start = 0 /\ in_stop = 0
    /\ start = 0 /\ stop = 0
    /\ num_processes = 0
    /\ cfg_processes = 1
    /\ args = << >>
    /\ profiles = [i \in Instances |-> "absent"]
    /\ FreshTasks
    /\ credential_ok = TRUE

\* Python's None, and a value that is not None. Strings that the code takes
\* apart are sequences of characters.
Null == << >>
Some(x) == <<x>>

\* str.startswith and the slice s[n:].
StartsWith(s, prefix) ==
    Len(s) >= Len(prefix) /\ SubSeq(s, 1, Len(prefix)) = prefix
SliceFrom(s, n) == SubSeq(s, n + 1, Len(s))

\* str.strip(chars): the characters of chars are removed from both ends.
RECURSIVE LStrip(_, _)
LStrip(s, chars) ==
    IF s # << >> /\ Head(s) \in chars THEN LStrip(Tail(s), chars) ELSE s
RECURSIVE RStrip(_, _)
RStrip(s, chars) ==
    IF s # << >> /\ s[Len(s)] \in chars
    THEN RStrip(SubSeq(s, 1, Len(s) - 1), chars) ELSE s
Strip(s, chars) == RStrip(LStrip(s, chars), chars)

\* ------------------------------------------- WebAutomation.scrape_request/order
\* The fields read through find_xpath_helper, in the order of the code; the
\* model reads the first MaxFields of each list.
MaxFields == 2
RequestFields ==
    <<"status", "building", "tag", "accept_date", "reject_date",
      "reject_reason", "location", "item_description", "work_order_num",
      "area_description", "requested_action">>
OrderFields ==
    <<"facility", "building", "location_id", "priority", "request_date",
      "schedule_date", "work_status", "date_closed", "main_charge_account",
      "task_code", "reference_number", "tag_number", "item_description",
      "request_time", "date_last_posted", "trade", "contractor_name",
      "est_completion_date", "task_description", "requested_action",
      "corrective_action">>
FieldList(kind) ==
    SubSeq(IF kind = "request" THEN RequestFields ELSE OrderFields,
           1, MaxFields)
HelperFields(kind) == SeqToSet(FieldList(kind))

\* What the portal can show: the search and result frames or not, and at an
\* element "for 7", "7" or "for" where the room is, "OK, " or ",A B" in a
\* field, or no such element (Null).
RoomTexts ==
    {Null, Some(<<"f", "o", "r", " ", "7">>), Some(<<"7">>),
     Some(<<"f", "o", "r">>)}
FieldTexts ==
    {Null, Some(<<"O", "K", ",", " ">>), Some(<<",", "A", " ", "B">>)}
Pages(kind) ==
    IF kind = "request"
    THEN {[frames |-> b, room |-> r, fields |-> f] :
             b \in BOOLEAN, r \in RoomTexts,
             f \in [HelperFields(kind) -> FieldTexts]}
    ELSE {[frames |-> b, room |-> Null, fields |-> f] :
             b \in BOOLEAN, f \in [HelperFields(kind) -> FieldTexts]}

\* WorkOrderRequest(request_id) / WorkOrder(order_number) (not in src/): the
\* id and every field None.
NewItem(kind, id) ==
    [id |-> id, room |-> Null, fields |-> [f \in HelperFields(kind) |-> Null]]

\* A helper that lets the failure of find_element pass: modelled by the
\* action that reads a field with it.
ExtractFieldRaises ==
    /\ extraction.pc = "fields" /\ extraction.next <= MaxFields
    /\ LET f == FieldList(extraction.kind)[extraction.next]
           element == extraction.page.fields[f]
       IN  extraction' =
             IF element = Null THEN [extraction EXCEPT !.pc = "raised"]
             ELSE [extraction EXCEPT
                     !.item.fields[f] = Some(Strip(element[1], {",", " "})),
                     !.next = @ + 1]
    /\ UNCHANGED <<program_vars, menu, platform, download>>

\* WebAutomation.py 91-95: the text of the element with commas and spaces
\* stripped from its ends, or None when anything at all goes wrong.
FindXpathHelper(element) ==
    IF element = Null THEN Null ELSE Some(Strip(element[1], {",", " "}))

\* WebAutomation.py 116-117: the room, without a leading "for ".
RequestRoom(text) ==
    IF StartsWith(text, <<"f", "o", "r", " ">>) THEN SliceFrom(text, 4)
    ELSE text

\* Scraper.py 91-93 / 106-108: scrape_* is entered for an item of either kind
\* on some result page.
ExtractInit ==
    /\ ProgramAtRest
    /\ menu = Resting /\ platform = Resting /\ download = Resting
    /\ \E kind \in ItemTypes : \E page \in Pages(kind) :
         extraction = [pc |-> "search", kind |-> kind, page |-> page,
                       next |-> 1,
                       item |-> NewItem(kind, ItemOf(kind, order_prefix, 7))]

\* WebAutomation.py 110-112 / 145-147: search_item, whose find_element and
\* switch_to calls (lines 69-77) raise when the portal does not show the
\* search box or the result frame, and the construction of the empty item.
SearchItem ==
    /\ extraction.pc = "search"
    /\ extraction' = [extraction EXCEPT
          !.pc = IF extraction.page.frames THEN "anchor" ELSE "raised"]
    /\ UNCHANGED <<program_vars, menu, platform, download>>

\* WebAutomation.py 115-118: the room is read with driver.find_element
\* itself, which raises NoSuchElementException when the element is absent.
ExtractRoom ==
    /\ extraction.pc = "anchor" /\ extraction.kind = "request"
    /\ extraction' =
         IF extraction.page.room = Null
         THEN [extraction EXCEPT !.pc = "raised"]
         ELSE [extraction EXCEPT
                 !.item.room = Some(RequestRoom(extraction.page.room[1])),
                 !.pc = "fields"]
    /\ UNCHANGED <<program_vars, menu, platform, download>>

\* WebAutomation.py 150: order.order_number = order_number; no element of
\* the page is required.
SetOrderNumber ==
    /\ extraction.pc = "anchor" /\ extraction.kind = "order"
    /\ extraction' = [extraction EXCEPT
                        !.item.id = ItemOf("order", order_prefix, 7),
                        !.pc = "fields"]
    /\ UNCHANGED <<program_vars, menu, platform, download>>

\* WebAutomation.py 119-129 / 151-171: the next field is what
\* find_xpath_helper returns for its element.
ExtractField ==
    /\ extraction.pc = "fields" /\ extraction.next <= MaxFields
    /\ LET f == FieldList(extraction.kind)[extraction.next]
       IN  extraction' = [extraction EXCEPT
              !.item.fields[f] = FindXpathHelper(extraction.page.fields[f]),
              !.next = @ + 1]
    /\ UNCHANGED <<program_vars, menu, platform, download>>

\* WebAutomation.py 131 / 173 and Scraper.py 93 / 108: the item is returned.
ReturnItem ==
    /\ extraction.pc = "fields" /\ extraction.next > MaxFields
    /\ extraction' = [extraction EXCEPT !.pc = "returned"]
    /\ UNCHANGED <<program_vars, menu, platform, download>>

\* Scraper.py 94-95 / 109-110: whatever was raised, an empty item of the id
\* is returned in place of the one being filled.
ReturnEmptyItem ==
    /\ extraction.pc = "raised"
    /\ extraction' = [extraction EXCEPT
          !.item = NewItem(extraction.kind,
                           ItemOf(extraction.kind, order_prefix, 7)),
          !.pc = "placeholder"]
    /\ UNCHANGED <<program_vars, menu, platform, download>>

ExtractNext ==
    \/ SearchItem
    \/ ExtractRoom
    \/ SetOrderNumber
    \/ ExtractField
    \/ ReturnItem
    \/ ReturnEmptyItem

ExtractSpec == ExtractInit /\ [][ExtractNext]_vars

\* --------------------------------------------------------- Menu.menu_prompt
MaxOptions == 3

\* What readchar.readkey returns (the names of readchar.key and two other
\* keys) and the key names and event types of keyboard.read_event.
ReadcharKeys == {"UP", "DOWN", "ENTER", "\n", "x"}
KeyNames == {"up", "down", "enter", "\n", "x"}
EventTypes == {"down", "up"}

\* A cursor that goes down without looking at the number of options.
SelectedIndexPastEnd(selected_index, options, key, up, down) ==
    IF key = up /\ selected_index > 0 THEN selected_index - 1
    ELSE IF key = down THEN selected_index + 1
    ELSE selected_index

\* Menu.py 84-87 / 96-99: selected_index after the key, where up and down
\* are what the branch compares the key with.
SelectedIndex(selected_index, options, key, up, down) ==
    IF key = up /\ selected_index > 0 THEN selected_index - 1
    ELSE IF key = down /\ selected_index < Len(options) - 1
         THEN selected_index + 1
    ELSE selected_index

\* Menu.py 84-88 / 96-100: whether the elif chain reaches the branch that
\* returns.
Selects(selected_index, options, key, up, down, enter) ==
    /\ ~(key = up /\ selected_index > 0)
    /\ ~(key = down /\ selected_index < Len(options) - 1)
    /\ (key = enter \/ key = "\n")

\* Menu.py 71-72: menu_prompt is entered with a non-empty list of options.
MenuInit ==
    /\ ProgramAtRest
    /\ platform = Resting /\ download = Resting /\ extraction = Resting
    /\ \E n \in 1..MaxOptions : \E clear, debug \in BOOLEAN :
         menu = [pc |-> "loop", options |-> [i \in 1..n |-> i],
                 clear |-> clear, debug |-> debug, selected_index |-> 0,
                 key |-> "", event_type |-> "", cleared |-> FALSE,
                 result |-> Null]

\* Menu.py 75-76, 94-101: one turn of the loop on a key from readchar.
ReadKey ==
    /\ menu.pc = "loop" /\ ~menu.debug
    /\ \E key_in \in ReadcharKeys :
         LET returns == Selects(menu.selected_index, menu.options, key_in,
                                "UP", "DOWN", "ENTER")
             index == SelectedIndex(menu.selected_index, menu.options,
                                    key_in, "UP", "DOWN")
         IN  menu' = [menu EXCEPT
                        !.key = key_in,
                        !.selected_index = index,
                        !.cleared = returns /\ menu.clear,
                        !.result = IF returns THEN Some(index) ELSE Null,
                        !.pc = IF returns THEN "returned" ELSE "loop"]
    /\ UNCHANGED <<program_vars, platform, download, extraction>>

\* Menu.py 75-76, 80-91: one turn of the loop on an event from keyboard; an
\* event that is not a key-down changes nothing.
ReadEvent ==
    /\ menu.pc = "loop" /\ menu.debug
    /\ \E key_name \in KeyNames : \E event_type \in EventTypes :
         LET key_down == event_type = "down"
             returns == key_down /\ Selects(menu.selected_index, menu.options,
                                            key_name, "up", "down", "enter")
             index == IF key_down
                      THEN SelectedIndex(menu.selected_index, menu.options,
                                         key_name, "up", "down")
                      ELSE menu.selected_index
         IN  menu' = [menu EXCEPT
                        !.key = key_name,
                        !.event_type = event_type,
                        !.selected_index = index,
                        !.cleared = returns /\ menu.clear,
                        !.result = IF returns THEN Some(index) ELSE Null,
                        !.pc = IF returns THEN "returned" ELSE "loop"]
    /\ UNCHANGED <<program_vars, platform, download, extraction>>

MenuNext == ReadKey \/ ReadEvent

MenuSpec == MenuInit /\ [][MenuNext]_vars

\* ----------------------------------------------------- SetupUtils.get_platform
\* Python values with their types: == between values of different types is
\* False, and None is a value of its own.
PyNone == [type |-> "NoneType", value |-> ""]
PyStr(text) == [type |-> "str", value |-> text]
PyInt(i) == [type |-> "int", value |-> Str(i)]
PyEq(a, b) == a.type = b.type /\ a.value = b.value
PyIn(a, list) == \E i \in 1..Len(list) : PyEq(a, list[i])

\* What platform.system() and platform.machine() can report, and what the
\* user can type at input().
Systems == {"Windows", "Darwin", "Linux", "FreeBSD", "Java"}
Machines == {"x86_64", "arm64", "i686"}
Typed == {"1", "2", "3", "4", "5", "6", "", "win64"}

\* SetupUtils.py 28-40: the platform detected, None where the chain of
\* if / elif has a branch without a return.
Detected(system, machine, is_64bits) ==
    CASE system = "Windows" ->
            IF is_64bits THEN PyStr("win64") ELSE PyStr("win32")
      [] system = "Darwin" ->
            IF machine = "x86_64" THEN PyStr("mac-x64")
            ELSE IF machine = "arm64" THEN PyStr("mac-arm64")
            ELSE PyNone
      [] system = "Linux" ->
            IF is_64bits THEN PyStr("linux64") ELSE PyNone
      [] OTHER -> PyNone

\* SetupUtils.py 44, 60-65: the list of options and the match statement,
\* whose patterns are the int literals 1 to 5.
Options == <<PyInt(1), PyInt(2), PyInt(3), PyInt(4), PyInt(5)>>
Matched(choice) ==
    CASE PyEq(choice, PyInt(1)) -> PyStr("linux64")
      [] PyEq(choice, PyInt(2)) -> PyStr("mac-arm64")
      [] PyEq(choice, PyInt(3)) -> PyStr("mac-x64")
      [] PyEq(choice, PyInt(4)) -> PyStr("win32")
      [] PyEq(choice, PyInt(5)) -> PyStr("win64")
      [] OTHER -> PyNone

\* SetupUtils.py 24-26: get_platform is called on some machine.
PlatformInit ==
    /\ ProgramAtRest
    /\ menu = Resting /\ download = Resting /\ extraction = Resting
    /\ \E system \in Systems : \E machine \in Machines :
       \E is_64bits \in BOOLEAN :
         platform = [pc |-> "detect", system |-> system, machine |-> machine,
                     is_64bits |-> is_64bits, choice |-> PyNone,
                     result |-> PyNone]

\* SetupUtils.py 28-45: the three systems known return what was detected,
\* or fall out of the function (None); any other system goes to the manual
\* selection with choice = None.
DetectPlatform ==
    /\ platform.pc = "detect"
    /\ platform' =
         IF platform.system \in {"Windows", "Darwin", "Linux"}
         THEN [platform EXCEPT
                 !.result = Detected(platform.system, platform.machine,
                                     platform.is_64bits),
                 !.pc = "returned"]
         ELSE [platform EXCEPT !.pc = "prompt"]
    /\ UNCHANGED <<program_vars, menu, download, extraction>>

\* SetupUtils.py 57-65: one turn of 'while choice not in options': input()
\* gives a str; when the choice is among the options the loop ends and the
\* match statement returns.
InputChoice ==
    /\ platform.pc = "prompt"
    /\ \E text \in Typed :
         LET choice == PyStr(text)
         IN  platform' =
               IF PyIn(choice, Options)
               THEN [platform EXCEPT !.choice = choice,
                                     !.result = Matched(choice),
                                     !.pc = "returned"]
               ELSE [platform EXCEPT !.choice = choice]
    /\ UNCHANGED <<program_vars, menu, download, extraction>>

PlatformNext == DetectPlatform \/ InputChoice

PlatformSpec == PlatformInit /\ [][PlatformNext]_vars

\* ------------------------------------------- SetupUtils.download_browser_items
\* The channels of the feed with the version each one lists as its latest,
\* and the platforms it has downloads for.
Channels == {"Stable", "Beta", "Dev", "Canary"}
LatestVersion(channel) ==
    CASE channel = "Stable" -> <<"1", "2", "5", ".", "0", ".", "7">>
      [] channel = "Beta" -> <<"1", "2", "6", ".", "0", ".", "3">>
      [] channel = "Dev" -> <<"1", "2", "7", ".", "1">>
      [] OTHER -> <<"1", "2", "8", ".", "0">>
FeedPlatforms == {"linux64", "mac-arm64", "mac-x64", "win32", "win64"}

\* What the caller passes as user_platform: the result of get_platform.
UserPlatforms == {PyStr(p) : p \in FeedPlatforms} \cup {PyNone}

\* SetupUtils.py 108: the items in the order of the loop.
BrowserItems == <<"chrome", "chromedriver">>

\* str.replace(old, new) on single characters.
Replace(s, old, new) ==
    [i \in 1..Len(s) |-> IF s[i] = old THEN new ELSE s[i]]

\* SetupUtils.py 79-92: what get_latest_download_link returns when the feed
\* was fetched: the version and a link, or None (the end of the function)
\* when no download of the item is for user_platform.
LatestDownloadLink(item, channel, user_platform) ==
    IF user_platform.type = "str" /\ user_platform.value \in FeedPlatforms
    THEN Some([version |-> LatestVersion(channel),
               url |-> <<item, channel, user_platform.value>>])
    ELSE Null

\* SetupUtils.py 95-96: download_browser_items is called with no version.
DownloadInit ==
    /\ ProgramAtRest
    /\ menu = Resting /\ platform = Resting /\ extraction = Resting
    /\ \E channel \in Channels : \E user_platform \in UserPlatforms :
         download = [pc |-> "link", channel |-> channel,
                     user_platform |-> user_platform, item |-> 1,
                     version |-> Null, url |-> Null, version_dash |-> Null,
                     extracted |-> << >>, error |-> "", result |-> Null]

\* SetupUtils.py 108-110, 114 (and 80-92): version is None, so the latest
\* link is fetched: raise_for_status raises HTTPError when the feed cannot be
\* fetched, unpacking None raises TypeError when the platform is not in the
\* feed; otherwise version, url and version_dash are set.
GetLatestDownloadLink ==
    /\ download.pc = "link" /\ download.version = Null
    /\ \E feed_ok \in BOOLEAN :
         LET link == LatestDownloadLink(BrowserItems[download.item],
                         download.channel, download.user_platform)
         IN  download' =
               IF ~feed_ok
               THEN [download EXCEPT !.pc = "raised", !.error = "HTTPError"]
               ELSE IF link = Null
               THEN [download EXCEPT !.pc = "raised", !.error = "TypeError"]
               ELSE [download EXCEPT
                       !.version = Some(link[1].version),
                       !.url = Some(link[1].url),
                       !.version_dash =
                           Some(Replace(link[1].version, ".", "-")),
                       !.pc = "get"]
    /\ UNCHANGED <<program_vars, menu, platform, extraction>>

\* SetupUtils.py 111-112: version is not None any more, so the else branch
\* calls SetupUtils.get_download_link, a name the class does not define:
\* AttributeError.
GetDownloadLink ==
    /\ download.pc = "link" /\ download.version # Null
    /\ download' = [download EXCEPT !.pc = "raised",
                                    !.error = "AttributeError"]
    /\ UNCHANGED <<program_vars, menu, platform, extraction>>

\* SetupUtils.py 116-133: the archive is fetched (HTTPError when that fails),
\* written, renamed and extracted into download_dir / version_dash; then the
\* loop takes the next item or, after the last one, line 135 returns
\* version_dash.
DownloadItem ==
    /\ download.pc = "get"
    /\ \E response_ok \in BOOLEAN :
         download' =
           IF ~response_ok
           THEN [download EXCEPT !.pc = "raised", !.error = "HTTPError"]
           ELSE IF download.item < Len(BrowserItems)
           THEN [download EXCEPT
                   !.extracted = Append(@, [item |-> BrowserItems[download.item],
                                            url |-> download.url[1],
                                            dir |-> download.version_dash[1]]),
                   !.item = @ + 1,
                   !.pc = "link"]
           ELSE [download EXCEPT
                   !.extracted = Append(@, [item |-> BrowserItems[download.item],
                                            url |-> download.url[1],
                                            dir |-> download.version_dash[1]]),
                   !.result = download.version_dash,
                   !.pc = "returned"]
    /\ UNCHANGED <<program_vars, menu, platform, extraction>>

DownloadNext == GetLatestDownloadLink \/ GetDownloadLink \/ DownloadItem

DownloadSpec == DownloadInit /\ [][DownloadNext]_vars

\* ================================================================= claims
Count(x, s) == Cardinality({j \in 1..Len(s) : s[j] = x})

RunningPcs == {"resolve", "copying", "login", "ready", "search", "write",
               "closing"}
PoolTasks == 1..MaxProcs

\* C1: for every start <= stop and every process count P >= 1 the buckets
\* cover [start, stop) exactly: the item of every id n of the range is once
\* in the bucket of worker (n mod P) + 1 and in no other bucket, and no
\* bucket holds anything that is not the item of an id of the range.
C1_PartitionCoversRange ==
    Len(args) > 0 =>
        /\ \A n \in start..(stop - 1) :
              /\ \E i \in 1..Len(args) :
                    args[i].process_id = (n % num_processes) + 1
              /\ \A i \in 1..Len(args) :
                    Count(ItemOf(item_type, Prefix, n), args[i].item_ids)
                      = IF args[i].process_id = (n % num_processes) + 1
                        THEN 1 ELSE 0
        /\ \A i \in 1..Len(args) : \A j \in 1..Len(args[i].item_ids) :
              \E n \in start..(stop - 1) :
                    args[i].item_ids[j] = ItemOf(item_type, Prefix, n)

\* C1 witness: requests -1..3 on 2 processes: -1 and 1 with worker 2, 0 and
\* 2 with worker 1.
C1_Witness ==
    /\ item_type = "request" /\ start = -1 /\ stop = 3 /\ num_processes = 2
    /\ Len(args) = 2
    /\ args[1].item_ids = <<0, 2>>
    /\ args[2].item_ids = <<-1, 1>>

\* C2: in a parallel run exactly num_processes > 1 assignments exist, their
\* process ids are 1..num_processes, each once, never 0, and one task per
\* assignment runs, also for an empty bucket.
C2_WorkerIndices ==
    dpc \in {"close_primary", "spawn", "pool", "reopen", "connect_reopen"} =>
        /\ num_processes > 1
        /\ Len(args) = num_processes
        /\ {args[i].process_id : i \in 1..Len(args)} = 1..num_processes
        /\ \A i, j \in 1..Len(args) :
              args[i].process_id = args[j].process_id => i = j
        /\ \A i \in 1..Len(args) : args[i].process_id # 0
        /\ dpc \in {"pool", "reopen", "connect_reopen"} =>
              {t \in PoolTasks : tpc[t] # "idle"} = 1..num_processes

\* C2 witness: a pool of MaxProcs tasks, every one started, one with an
\* empty bucket.
C2_Witness ==
    /\ dpc = "pool" /\ num_processes = MaxProcs
    /\ \E i \in 1..Len(args) : args[i].item_ids = << >>
    /\ \E i \in 1..Len(args) : args[i].item_ids # << >>
    /\ \A t \in 1..num_processes : tpc[t] \in RunningPcs

\* The driver is in a scrape run and past the flooring of lines 90-92.
Floored ==
    dpc \in {"get_count", "check_count", "partition", "close_primary", "spawn",
             "pool", "sequential", "reopen", "connect_reopen", "finish"}

AllRecords(t) == SeqToSet(produced[t]) \cup SeqToSet(cur[t])

\* C3: for requests, once the range is read, start = max(1, entered start)
\* and stop = max(start, entered stop), so start <= stop; no id below 1 is
\* in a bucket, in the sequential range or in a record; and when 0 was
\* entered as start and the range is not empty, 1 is the first id of its
\* bucket and of the sequential range.
C3_RequestFlooring ==
    (item_type = "request" /\ Floored) =>
        /\ start = Max(1, in_start)
        /\ stop = Max(start, in_stop)
        /\ start <= stop
        /\ \A t \in Tasks :
              /\ \A j \in 1..Len(Items(t)) : Items(t)[j] >= 1
              /\ \A r \in AllRecords(t) : r.id >= 1
        /\ (in_start = 0 /\ start < stop) =>
              /\ dpc = "sequential" => Items(0)[1] = 1
              /\ Len(args) > 0 =>
                    \E i \in 1..Len(args) :
                        /\ args[i].process_id = (1 % num_processes) + 1
                        /\ args[i].item_ids[1] = 1
                        /\ \A t \in PoolTasks : \A r \in AllRecords(t) :
                              r.id = 1 => t = i

\* C3 witness: 0 was entered as start and the record of id 1 is written.
C3_Witness ==
    /\ item_type = "request" /\ in_start = 0 /\ in_stop = 2
    /\ \E t \in Tasks : Len(produced[t]) = 1 /\ produced[t][1].id = 1

\* C4 (as claimed): when start >= stop after the flooring every bucket is
\* empty, nothing is scraped or recorded, and the run is no error: it does
\* not end in an exception and ends with the primary session open.
C4_EmptyRangeCompletes ==
    (num_processes >= 1 /\ start >= stop) =>
        /\ \A t \in Tasks : Items(t) = << >> /\ AllRecords(t) = {}
        /\ dpc # "crashed"
        /\ dpc = "finish" => session[0] = "live"

\* The order strings written out, for the ids the prompt offers.
OrderLiteral(n) ==
    CASE n = -3 -> "WO-3" [] n = -2 -> "WO-2" [] n = -1 -> "WO-1"
      [] n = 0 -> "WO0" [] n = 1 -> "WO1" [] n = 2 -> "WO2" [] n = 3 -> "WO3"
      [] n = 4 -> "WO4" [] n = 5 -> "WO5" [] n = 6 -> "WO6" [] n = 7 -> "WO7"
      [] n = 8 -> "WO8" [] n = 9 -> "WO9" [] n = 10 -> "WO10"

RecordIds(t) == [j \in 1..Len(produced[t]) |-> produced[t][j].id]

\* Every task of the pool ended by exhausting its list (Driver.py 147).
AllTasksDone ==
    /\ dpc \in {"reopen", "connect_reopen", "finish"}
    /\ \A t \in 1..Len(args) : tpc[t] = "done"

\* C5: in a parallel order run the range is not floored and every id n of
\* [start, stop) is in the list of worker (n mod P) + 1 as the string "WO"
\* followed by n; for 5..7 on 2 processes worker 1 gets <<WO6>> and worker 2
\* gets <<WO5>>; and when every task has worked through its list the records
\* written by a worker are those of its list, once each (2 records, one per
\* worker, in the example).
C5_OrderPartition ==
    (item_type = "order" /\ Len(args) > 0) =>
        /\ start = in_start /\ stop = in_stop
        /\ \A n \in start..(stop - 1) : \E i \in 1..Len(args) :
              /\ args[i].process_id = (n % num_processes) + 1
              /\ Count(OrderLiteral(n), args[i].item_ids) = 1
        /\ (start = 5 /\ stop = 7 /\ num_processes = 2) =>
              /\ args[1] = [process_id |-> 1, item_ids |-> <<"WO6">>]
              /\ args[2] = [process_id |-> 2, item_ids |-> <<"WO5">>]
        /\ AllTasksDone =>
              /\ \A t \in 1..Len(args) : RecordIds(t) = args[t].item_ids
              /\ (start = 5 /\ stop = 7 /\ num_processes = 2) =>
                    /\ Len(produced[1]) = 1 /\ Len(produced[2]) = 1
                    /\ \A t \in Tasks \ {1, 2} : produced[t] = << >>

\* C5 witness: the example run has ended, WO6 written by worker 1 and WO5 by
\* worker 2.
C5_Witness ==
    /\ item_type = "order" /\ start = 5 /\ stop = 7 /\ num_processes = 2
    /\ dpc = "finish"
    /\ RecordIds(1) = <<"WO6">> /\ RecordIds(2) = <<"WO5">>

\* C6: while a task of the pool is running or a clone is being copied the
\* primary session is closed; the primary session is open only when no task
\* runs and no clone is being made.
C6_PrimaryBarrier ==
    (\E t \in PoolTasks : tpc[t] \in RunningPcs) => session[0] = "closed"

\* C6 witness: the base profile is being copied and another task works on its
\* items while the primary session is closed.
C6_Witness ==
    /\ session[0] = "closed"
    /\ \E t \in PoolTasks : tpc[t] = "copying"
    /\ \E t \in PoolTasks : tpc[t] = "write"

\* C7 (as claimed): when a parallel run has ended, however its tasks ended,
\* the primary session is open again.
C7_PrimaryReopened ==
    (num_processes > 1 /\ dpc \in {"finish", "crashed"}) => session[0] = "live"

\* C8 (as claimed): the clone of a task's instance exists before the task is
\* started.
C8_CloneBeforeStart ==
    \A t \in 1..Len(args) : tpc[t] # "idle" => Exists(ProcessIdOf(t))

\* C8 (amended): a task is started without its clone; the task itself creates
\* the directory of its instance, and that directory exists, the copy ended,
\* before the task's webdriver is started on it.
C8_CloneBeforeClient ==
    /\ [](\A t \in 1..Len(args) :
            session[t] = "live" =>
                /\ Exists(ProcessIdOf(t))
                /\ tpc[t] \notin {"idle", "resolve", "copying"})
    /\ [][\A k \in 1..MaxProcs :
            (~Exists(k) /\ Exists(k)') =>
                (k <= Len(args) /\ ProcessIdOf(k) = k /\ tpc[k] = "resolve"
                 /\ dpc = "pool")]_vars

\* C8 witness: a task's webdriver runs on the complete copy the task made.
C8_Witness ==
    /\ dpc = "pool"
    /\ \E t \in 1..Len(args) :
          /\ session[t] = "live" /\ tpc[t] = "search"
          /\ profiles[ProcessIdOf(t)] = "trusted"

\* C9: initialize_driver on an instance whose directory exists copies and
\* creates nothing: no profile directory changes and the webdriver starts.
C9_ResolveIdempotent ==
    [][\A t \in Tasks :
          (InitializeDriver(t) /\ Exists(ProcessIdOf(t))) =>
              /\ profiles' = profiles
              /\ tpc'[t] = "login"]_vars

\* C9 witness: a worker is past the resolve step on a directory whose content
\* differs from profile 0, so the directory was found and not copied again.
C9_Witness ==
    /\ \E t \in 1..Len(args) :
          /\ tpc[t] = "login"
          /\ profiles[ProcessIdOf(t)] # profiles[0]

\* C10 (as claimed): no webdriver is started on the remains of a copy that
\* failed part-way.
C10_NoPartialProfileInUse ==
    \A t \in Tasks :
        (session[t] = "live" /\ (t = 0 \/ t <= Len(args))) =>
            profiles[ProcessIdOf(t)] # "partial"

\* C11 (as claimed): when a worker needs a clone and the base profile is
\* missing, the run fails before any worker is started: no task of the pool
\* runs.
C11_NoWorkerWithoutBase ==
    (dpc = "pool" /\ ~Exists(0)
       /\ \E i \in 1..Len(args) : ~Exists(args[i].process_id)) =>
        \A t \in PoolTasks : tpc[t] = "idle"

\* The driver is in a scrape run and past the check of the process count.
CountChecked ==
    dpc \in {"partition", "close_primary", "spawn", "pool", "sequential",
             "reopen", "connect_reopen", "finish"}

\* C12 (as claimed): a process count below 1 ends the call in an error.
C12_InvalidCountFatal ==
    [][(dpc = "check_count" /\ num_processes < 1) => dpc' = "crashed"]_vars

\* C12 (amended): a process count below 1 is no error: the operator is asked
\* for another count, nothing else happens meanwhile, and the run goes on
\* only with a count of at least 1, which is the count saved; nothing is
\* partitioned, started or scraped with a count below 1.
C12_InvalidCountAskedAgain ==
    /\ [](/\ CountChecked => (num_processes >= 1
                                /\ cfg_processes = num_processes)
          /\ (Len(args) > 0 \/ \E t \in PoolTasks : tpc[t] # "idle") =>
                num_processes >= 1
          /\ (\E t \in Tasks : AllRecords(t) # {}) => num_processes >= 1)
    /\ [][(dpc = "check_count" /\ num_processes < 1) =>
            (dpc' = "check_count" /\ args' = args /\ task_vars' = task_vars
             /\ cfg_processes' = cfg_processes)]_vars

\* C12 witness: the configured count is below 1 and the operator, asked at
\* the prompt, has given a count the run can go on with.
C12_Witness ==
    dpc = "check_count" /\ cfg_processes < 1 /\ num_processes >= 1

\* The task has worked through its list.
Exhausted(t) ==
    IF t = 0 THEN dpc = "sequential" /\ pos[0] > Len(Items(0))
    ELSE tpc[t] = "done"

\* C13: a search or extraction that fails leaves the scrape as the one empty
\* record of that item, never as an exception: the step after a search is
\* the write of one record of the item searched for, the session stays as it
\* is, the record of an item not found is in the task's output once, and a
\* task that has such a record still works through its whole list.
C13_ItemFailureIsolated ==
    /\ [](\A t \in Tasks : \A j \in 1..Len(produced[t]) :
             ~produced[t][j].found =>
                /\ Count(produced[t][j].id, RecordIds(t)) = 1
                /\ Exhausted(t) => Len(produced[t]) = Len(Items(t)))
    /\ [][\A t \in Tasks :
            (tpc[t] = "search" /\ tpc'[t] # "search") =>
                /\ tpc'[t] = "write"
                /\ Len(cur'[t]) = 1
                /\ cur'[t][1].id = Items(t)[pos[t]]
                /\ pos'[t] = pos[t]
                /\ session'[t] = session[t] /\ conn'[t] = conn[t]]_vars

\* C13 witness: a task has worked through a list of two items, the first not
\* found, the second found: two records.
C13_Witness ==
    \E t \in Tasks :
        /\ Exhausted(t) /\ Len(produced[t]) = 2
        /\ ~produced[t][1].found /\ produced[t][2].found

\* C14 (as claimed): no failure of the automation client in a per-item
\* operation (choosing the category, the search, the extraction) ends the
\* task: a task that works on its items does not fail.
C14_ClientFailureRecovered ==
    [][\A t \in Tasks :
          (Working(t) /\ tpc[t] \in {"ready", "search", "write"}) =>
              tpc'[t] # "failed"]_vars

\* C15 (as claimed): a worker whose credential is rejected does not get
\* ready and attempts none of its items.
C15_AuthFailureFatal ==
    \A t \in PoolTasks :
        ~credential_ok =>
            /\ tpc[t] \notin {"ready", "search", "write", "done"}
            /\ AllRecords(t) = {}

\* The tasks in whose output the item of id n is.
Writers(n) ==
    {t \in Tasks : Count(ItemOf(item_type, Prefix, n), RecordIds(t)) > 0}

\* C16: when a run has returned and no task of it was interrupted, the item
\* of every id of [start, stop) is in the output of exactly one task,
\* exactly once, found or not, and the output holds nothing else: as many
\* records as the range has ids.
C16_EveryItemOnce ==
    (dpc = "finish" /\ \A t \in PoolTasks : tpc[t] \in {"idle", "done"}) =>
        /\ \A n \in start..(stop - 1) :
              /\ Cardinality(Writers(n)) = 1
              /\ \A t \in Writers(n) :
                    Count(ItemOf(item_type, Prefix, n), RecordIds(t)) = 1
        /\ \A t \in Tasks : \A j \in 1..Len(produced[t]) :
              \E n \in start..(stop - 1) :
                  produced[t][j].id = ItemOf(item_type, Prefix, n)
        /\ \A t \in Tasks : cur[t] = << >>

\* C16 witness: a parallel request run 1..3 has returned: worker 1 wrote the
\* record of 2, not found, and worker 2 the record of 1.
C16_Witness ==
    /\ dpc = "finish" /\ item_type = "request" /\ num_processes = 2
    /\ start = 1 /\ stop = 3
    /\ tpc[1] = "done" /\ tpc[2] = "done"
    /\ produced[1] = <<[id |-> 2, found |-> FALSE]>>
    /\ produced[2] = <<[id |-> 1, found |-> TRUE]>>

\* The task has a list in this run: the primary database in a sequential
\* run, a task of the pool from the partitioning on.
HasList(t) == IF t = 0 THEN dpc = "sequential" ELSE t <= Len(args)

\* C17: every bucket lists its items by ascending id; a task works through
\* its list from the front, one item at a time: what it has written are the
\* first pos-1 items of its list in the list's order, and the record in hand
\* is the next one; requests 100..103 on one process are scraped as 100,
\* 101, 102, three records.
C17_AscendingOrder ==
    /\ \A i \in 1..Len(args) : \A j, k \in 1..Len(args[i].item_ids) :
          j < k =>
              \E n, m \in start..(stop - 1) :
                  /\ n < m
                  /\ args[i].item_ids[j] = ItemOf(item_type, Prefix, n)
                  /\ args[i].item_ids[k] = ItemOf(item_type, Prefix, m)
    /\ \A t \in Tasks : HasList(t) =>
          /\ pos[t] <= Len(Items(t)) + 1
          /\ RecordIds(t) = SubSeq(Items(t), 1, pos[t] - 1)
          /\ cur[t] # << >> => cur[t][1].id = Items(t)[pos[t]]
    /\ (dpc = "sequential" /\ item_type = "request"
           /\ start = 100 /\ stop = 103) =>
          /\ num_processes = 1
          /\ Items(0) = <<100, 101, 102>>
          /\ pos[0] > 3 => RecordIds(0) = <<100, 101, 102>>

\* C17 witness: the example run has written the records of 100 and 101 and
\* scraped 102.
C17_Witness ==
    /\ dpc = "sequential" /\ start = 100 /\ stop = 103
    /\ RecordIds(0) = <<100, 101>>
    /\ cur[0] # << >> /\ cur[0][1].id = 102

\* C18 (as claimed): a worker that an interrupt has ended has closed its
\* session and its connection.
C18_InterruptedWorkerCloses ==
    \A t \in PoolTasks :
        tpc[t] \in {"stopped", "killed"} =>
            session[t] # "live" /\ conn[t] # "open"

\* C19: the end of one task is that task's alone. The step in which a task
\* is interrupted, stops or fails changes nothing of any other task; no
\* record of an item of one task's list is ever with another task; and a
\* task that has exhausted its list has written all of it, whatever became
\* of the others.
C19_CancellationLocal ==
    /\ [](/\ \A t, u \in 1..Len(args) : t # u =>
                \A r \in AllRecords(u) : Count(r.id, args[t].item_ids) = 0
          /\ \A u \in 1..Len(args) : tpc[u] = "done" =>
                Len(produced[u]) = Len(args[u].item_ids))
    /\ [][\A t \in PoolTasks :
            (tpc'[t] # tpc[t] /\ tpc'[t] \in {"closing", "stopped", "failed"}) =>
                \A u \in PoolTasks \ {t} :
                    /\ tpc'[u] = tpc[u] /\ pos'[u] = pos[u]
                    /\ cur'[u] = cur[u] /\ produced'[u] = produced[u]
                    /\ session'[u] = session[u] /\ conn'[u] = conn[u]]_vars

\* C19 witness: the pool has ended; worker 1 was interrupted before it wrote
\* its item, worker 2 has written its whole list, and the item of worker 1 is
\* in nobody's output.
C19_Witness ==
    /\ dpc = "reopen" /\ Len(args) = 2
    /\ tpc[1] = "stopped" /\ args[1].item_ids # << >> /\ produced[1] = << >>
    /\ tpc[2] = "done" /\ args[2].item_ids # << >>
    /\ Len(produced[2]) = Len(args[2].item_ids)

\* C20: with one process the run stays on the primary database: the driver
\* never partitions, closes, starts a pool or reopens; no task of the pool
\* and no session but the primary's exists; while the range is scraped no
\* profile directory changes and the primary session stays open; and when
\* the range is exhausted the primary database has written all of it.
C20_SequentialOnPrimary ==
    /\ []((num_processes = 1 /\ CountChecked) =>
            /\ dpc \in {"sequential", "finish"}
            /\ args = << >>
            /\ session[0] = "live" /\ conn[0] = "open"
            /\ \A t \in PoolTasks : tpc[t] = "idle" /\ session[t] = "none"
            /\ Exhausted(0) =>
                  RecordIds(0) = RangeItems(item_type, Prefix, start, stop))
    /\ [][dpc = "sequential" =>
            (profiles' = profiles /\ session'[0] = session[0]
             /\ conn'[0] = conn[0] /\ args' = args)]_vars

\* C20 witness: a sequential run of two items has returned on a machine on
\* which no clone was ever made.
C20_Witness ==
    /\ dpc = "finish" /\ num_processes = 1
    /\ Len(produced[0]) = 2 /\ session[0] = "live"
    /\ \A i \in 1..MaxProcs : profiles[i] = "absent"

\* The tasks that have a session in this run.
Owners == {t \in Tasks : t = 0 \/ t <= Len(args)}

\* C21: every session and connection belongs to one task, which made it
\* itself: none exists for a task of the pool before the pool is started and
\* none for a task without a list; a connection is opened only by a task
\* that has its own session; and no two live sessions, the primary's
\* included, are on the same profile instance.
C21_ExclusiveOwnership ==
    /\ \A t \in PoolTasks :
          (t \notin Owners \/ dpc \in {"partition", "close_primary", "spawn"})
             => (session[t] = "none" /\ conn[t] = "none")
    /\ \A t \in Tasks : conn[t] # "none" => session[t] # "none"
    /\ \A t, u \in Owners :
          (t # u /\ session[t] = "live" /\ session[u] = "live") =>
              ProcessIdOf(t) # ProcessIdOf(u)

\* C21 witness: two workers at once, each with its own live session and open
\* connection, on instances 1 and 2.
C21_Witness ==
    /\ Len(args) = 2
    /\ session[1] = "live" /\ conn[1] = "open" /\ ProcessIdOf(1) = 1
    /\ session[2] = "live" /\ conn[2] = "open" /\ ProcessIdOf(2) = 2

\* The steps a session can take from one position to the next.
SessionSteps ==
    {<<"idle", "resolve">>, <<"resolve", "copying">>, <<"resolve", "login">>,
     <<"resolve", "failed">>, <<"copying", "login">>, <<"copying", "failed">>,
     <<"login", "ready">>, <<"login", "failed">>, <<"ready", "search">>,
     <<"ready", "failed">>, <<"search", "write">>, <<"write", "ready">>,
     <<"ready", "done">>, <<"ready", "closing">>, <<"write", "closing">>,
     <<"closing", "stopped">>}

\* C22: a session goes from its set-up to the login, is ready only when the
\* login has returned, then for each item selects the category of the kind
\* (WR for requests, WO for orders), searches and extracts, writes the
\* record and is ready again; it touches no item before it is ready, and a
\* task that closes at the end of its try block has exhausted its list.
C22_SessionOrder ==
    /\ [](\A t \in Tasks :
            /\ tpc[t] \in {"idle", "resolve", "copying", "login"} =>
                  (conn[t] # "open" /\ cur[t] = << >> /\ category[t] = ""
                   /\ (t # 0 => pos[t] = 1 /\ produced[t] = << >>))
            /\ tpc[t] \in {"search", "write"} =>
                  /\ session[t] = "live" /\ conn[t] = "open"
                  /\ pos[t] <= Len(Items(t))
                  /\ category[t] = (IF item_type = "request" THEN "WR"
                                                              ELSE "WO")
            /\ cur[t] # << >> => tpc[t] = "write"
            /\ category[t] # "" => tpc[t] \in {"search", "write"}
            /\ tpc[t] = "done" =>
                  /\ pos[t] = Len(Items(t)) + 1
                  /\ session[t] = "closed" /\ conn[t] = "closed")
    /\ [][\A t \in Tasks :
            tpc'[t] # tpc[t] =>
                \/ <<tpc[t], tpc'[t]>> \in SessionSteps
                \/ tpc'[t] = "idle"]_vars

\* C22 witness: a worker of an order run has selected WO, searched and
\* extracted the record of its first item on a session that is logged in.
C22_Witness ==
    \E t \in PoolTasks :
        /\ item_type = "order" /\ tpc[t] = "write" /\ category[t] = "WO"
        /\ cur[t] # << >> /\ conn[t] = "open"

\* C24: the step that ends the creation of a clone leaves the clone with the
\* contents instance 0 has at that moment; instance 0 is changed by no step
\* of a worker, and a step changes the profile of instance k > 0 only when
\* it is a step of the one task bound to k.
C24_CloneEqualsBase ==
    [][/\ \A t \in PoolTasks :
            (tpc[t] = "copying" /\ tpc'[t] # "copying") =>
                profiles'[ProcessIdOf(t)] = profiles[0]
       /\ (profiles'[0] # profiles[0]) => tpc'[0] # tpc[0]
       /\ \A k \in Instances \ {0} :
            (profiles'[k] # profiles[k]) =>
                \E t \in PoolTasks :
                    /\ t <= Len(args) /\ ProcessIdOf(t) = k
                    /\ tpc'[t] # tpc[t]]_vars

\* C25: a worker that has ended by an error holds neither a live session
\* nor an open connection.
C25_FailedWorkerReleases ==
    \A t \in PoolTasks :
        tpc[t] = "failed" => (session[t] # "live" /\ conn[t] # "open")

\* C26: a close is performed only on a session and a connection that have
\* not been closed before, and what is closed stays closed and untouched for
\* the rest of the run, also when an interrupt arrives during the close.
C26_ClosedIsTerminal ==
    [][\A t \in PoolTasks :
          /\ (tpc[t] = "closing" /\ tpc'[t] = "stopped") =>
                (session[t] = "live" /\ conn[t] = "open")
          /\ (tpc[t] \in {"done", "stopped"} /\ tpc'[t] # "idle") =>
                /\ tpc'[t] = tpc[t]
                /\ session'[t] = "closed" /\ conn'[t] = "closed"]_vars

\* C27: the partition of start..stop-1 over num_processes >= 1 buckets has
\* one bucket per process and the sizes of any two buckets differ by at
\* most 1.
C27_UniformPartition ==
    Len(args) > 0 =>
        /\ Len(args) = num_processes
        /\ \A i, j \in 1..Len(args) :
              Len(args[i].item_ids) - Len(args[j].item_ids) \in {-1, 0, 1}

\* C27 witness: five ids from a negative start on three processes: buckets
\* of two sizes, 2 and 1.
C27_Witness ==
    /\ start = -2 /\ stop = 3 /\ num_processes = 3 /\ Len(args) = 3
    /\ \E i, j \in 1..3 :
          Len(args[i].item_ids) = 2 /\ Len(args[j].item_ids) = 1

\* What the stripped text of a page element is, case by case.
C23_Clean(element) ==
    CASE element = Some(<<"O", "K", ",", " ">>) -> Some(<<"O", "K">>)
      [] element = Some(<<",", "A", " ", "B">>) -> Some(<<"A", " ", "B">>)
      [] OTHER -> Null

\* C23: an item comes back as a placeholder only when the portal did not
\* show the search or the request's room element is absent; otherwise the
\* item returned has None at exactly the fields whose element is missing
\* and the stripped text at every other field, the room without its "for ",
\* and a placeholder has the id and nothing else.
C23_MissingFieldIsNull ==
    /\ extraction.pc = "placeholder" =>
          /\ \/ ~extraction.page.frames
             \/ extraction.kind = "request" /\ extraction.page.room = Null
          /\ extraction.item.room = Null
          /\ \A f \in HelperFields(extraction.kind) :
                extraction.item.fields[f] = Null
    /\ extraction.pc = "returned" =>
          /\ extraction.page.frames
          /\ extraction.kind = "request" =>
                /\ extraction.page.room # Null
                /\ extraction.item.room =
                      (IF extraction.page.room = Some(<<"f", "o", "r">>)
                       THEN Some(<<"f", "o", "r">>) ELSE Some(<<"7">>))
          /\ \A f \in HelperFields(extraction.kind) :
                /\ extraction.item.fields[f] = Null
                      <=> extraction.page.fields[f] = Null
                /\ extraction.item.fields[f] =
                      C23_Clean(extraction.page.fields[f])
    /\ extraction.pc \in {"placeholder", "returned"} =>
          extraction.item.id = (IF extraction.kind = "request" THEN 7
                                ELSE "WO7")

\* C23 witness: a request whose page shows "for 7" as the room, no status
\* and "OK, " as the building is returned with room 7, status None and
\* building OK.
C23_Witness ==
    /\ extraction.pc = "returned" /\ extraction.kind = "request"
    /\ extraction.page.room = Some(<<"f", "o", "r", " ", "7">>)
    /\ extraction.page.fields["status"] = Null
    /\ extraction.page.fields["building"] = Some(<<"O", "K", ",", " ">>)
    /\ extraction.item.room = Some(<<"7">>)
    /\ extraction.item.fields["status"] = Null
    /\ extraction.item.fields["building"] = Some(<<"O", "K">>)

\* The key that an accepted step of menu_prompt has read: a key of readchar,
\* or a key-down of keyboard; a key release is no key.
C28_Pressed(m, names) ==
    /\ m.key \in names
    /\ m.debug => m.event_type = "down"

\* C28: the cursor stays within 0..len(options)-1; a step that reads UP
\* takes it up by one unless it is on the first option, one that reads DOWN
\* takes it down by one unless it is on the last, one that reads anything
\* else leaves it; the prompt returns exactly on ENTER, and what it returns
\* is the index the cursor is on.
C28_CursorMoves ==
    /\ [](/\ menu.selected_index \in 0..(Len(menu.options) - 1)
          /\ menu.pc = "returned" =>
                /\ menu.result = <<menu.selected_index>>
                /\ C28_Pressed(menu, {"ENTER", "enter", "\n"}))
    /\ [][menu' # menu =>
            LET last == Len(menu.options) - 1
                i == menu.selected_index
            IN  /\ menu.pc = "loop"
                /\ menu'.selected_index =
                      CASE C28_Pressed(menu', {"UP", "up"}) ->
                              IF i = 0 THEN 0 ELSE i - 1
                        [] C28_Pressed(menu', {"DOWN", "down"}) ->
                              IF i = last THEN last ELSE i + 1
                        [] OTHER -> i
                /\ menu'.pc = "returned" <=>
                      C28_Pressed(menu', {"ENTER", "enter", "\n"})]_vars

\* C28 witness: with three options, the prompt has returned index 2 on ENTER.
C28_Witness ==
    /\ Len(menu.options) = 3 /\ menu.pc = "returned"
    /\ menu.key = "ENTER" /\ menu.result = <<2>>

\* C29: what get_platform returns is one of the five supported names, and
\* the manual selection is not still asking once the user has entered one
\* of the choices 1 to 5.
C29_ReturnsSupportedPlatform ==
    /\ platform.pc = "returned" =>
          /\ platform.result.type = "str"
          /\ platform.result.value \in
                {"linux64", "mac-arm64", "mac-x64", "win32", "win64"}
    /\ platform.pc = "prompt" =>
          platform.choice.value \notin {"1", "2", "3", "4", "5"}

\* The latest version of each channel with dashes for dots.
C30_Dashed(channel) ==
    CASE channel = "Stable" -> <<"1", "2", "5", "-", "0", "-", "7">>
      [] channel = "Beta" -> <<"1", "2", "6", "-", "0", "-", "3">>
      [] channel = "Dev" -> <<"1", "2", "7", "-", "1">>
      [] OTHER -> <<"1", "2", "8", "-", "0">>

\* C30: a call with no version fails only when a request fails or the
\* platform is not in the feed; once chrome is extracted the call goes on to
\* chromedriver; and a call that has returned has extracted chrome and then
\* chromedriver, both from the link of the channel's latest version, and
\* returns that version with dashes for dots.
C30_DownloadsBoth ==
    /\ download.pc = "raised" => download.error \in {"HTTPError", "TypeError"}
    /\ download.pc = "returned" =>
          /\ Len(download.extracted) = 2
          /\ download.extracted[1].item = "chrome"
          /\ download.extracted[2].item = "chromedriver"
          /\ \A i \in 1..2 :
                /\ download.extracted[i].url =
                      <<download.extracted[i].item, download.channel,
                        download.user_platform.value>>
                /\ download.extracted[i].dir = C30_Dashed(download.channel)
          /\ download.result = <<C30_Dashed(download.channel)>>

=============================================================================
